---- MODULE Spec2Model ----
(***************************************************************************)
(* Model of the sner rate-limiting scheduler, sner/server/scheduler/core.py *)
(* (QueueManager, JobManager, SchedulerService).                            *)
(*                                                                          *)
(* State: the scheduler tables Target, Readynet, Heatmap, Job, Queue, the   *)
(* job output files, the PostgreSQL session-level advisory lock, and the    *)
(* position of every request handler (one database session each).          *)
(*                                                                          *)
(* Spec          one session serving every operation, a call at a time      *)
(* SpecAssign    enqueue, job_assign and job_output with the arguments of   *)
(*               job_assign kept, and an inactive queue beside the two      *)
(* SpecRoundTrip enqueue, then an agent that polls and submits each output  *)
(* SpecLock      two sessions running enqueue and job_assign step by step:  *)
(*               up to get_lock, get_lock, the locked section               *)
(* SpecTerminal  two sessions running job_output and reconcile step by     *)
(*               step on the jobs of one queue                              *)
(***************************************************************************)
EXTENDS Integers, Sequences, FiniteSets, TLC

\* ------------------------------------------------------------------ bounds

\* largest SNER_HEATMAP_HOT_LEVEL the operator may configure
MaxHotLevel == 2
\* job ids ever minted (uuid4 values are never reused)
MaxJobs == 2
\* rows the Target table may hold at once
MaxTargets == 2
\* length of the raw target list one enqueue call is given
MaxEnqueue == 2
\* nesting depth of the advisory lock one session may reach
MaxLockDepth == 1
\* times the heatmap may be drained for one job
MaxDrains == 2

\* --------------------------------------------------------------- constants

SCHEDULER_LOCK_NUMBER == 1
TIMEOUT_JOB_ASSIGN == 3
TIMEOUT_JOB_OUTPUT == 30

\* request handlers; each owns one database session
Handlers == {"h1", "h2"}
NoHandler == "none"

\* IPv4 addresses offered as targets; BlankTarget is a whitespace-only string
Addrs == {<<10, 0, 0, 1>>, <<10, 0, 1, 1>>}
BlankTarget == <<>>
RawTargets == Addrs \cup {BlankTarget}

\* patterns of the operator's blacklist file: the single address 10.0.1.1
Blacklist == {<<10, 0, 1, 1>>}

\* the Queue rows: name, active, priority, reqs, group_size. Queue 3 is an
\* inactive queue of the highest priority.
QueueIds == {1, 2, 3}
QueueRow(q) ==
    IF q = 1
    THEN [name |-> "q1", active |-> TRUE, priority |-> 10, reqs |-> {"nmap"},
          group_size |-> 2]
    ELSE IF q = 2
    THEN [name |-> "q2", active |-> TRUE, priority |-> 5, reqs |-> {},
          group_size |-> 1]
    ELSE [name |-> "q3", active |-> FALSE, priority |-> 20, reqs |-> {},
          group_size |-> 1]
ActiveQueues == {q \in QueueIds : QueueRow(q).active}

\* what an agent may send
ClientCaps == {{}, {"nmap"}}
QueueNames == {"", "q1", "q2"}
\* the same, and the name of the inactive queue
AllQueueNames == QueueNames \cup {"q3"}
\* retval an agent reports with its output
RetVals == {0}
\* Job.retval is nullable: <<>> is null, <<v>> the integer v
NoRetval == <<>>
Some(v) == <<v>>

\* ------------------------------------------------------------- pure helpers

\* SchedulerService.hashval: the /24 network of an IPv4 address, as
\* <<a, b, c, 0, 24>> for "a.b.c.0/24"
hashval(value) == <<value[1], value[2], value[3], 0, 24>>

\* the stripped, non-empty targets of a raw list, in order
RECURSIVE Stripped(_)
Stripped(raw) ==
    IF raw = <<>> THEN <<>>
    ELSE IF Head(raw) = BlankTarget THEN Stripped(Tail(raw))
    ELSE <<Head(raw)>> \o Stripped(Tail(raw))

\* ExclMatcher.match on the blacklist
BlacklistMatch(target) == target \in Blacklist

Range(s) == {s[i] : i \in DOMAIN s}

\* number of positions of seq s holding an element of bucket hv
RECURSIVE CountIn(_, _)
CountIn(s, hv) ==
    IF s = <<>> THEN 0
    ELSE (IF hashval(Head(s)) = hv THEN 1 ELSE 0) + CountIn(Tail(s), hv)

RECURSIVE SumOver(_, _)
SumOver(f, S) ==
    IF S = {} THEN 0
    ELSE LET x == CHOOSE y \in S : TRUE IN f[x] + SumOver(f, S \ {x})

Buckets == {hashval(a) : a \in Addrs}

\* ------------------------------------------------------------------- state

VARIABLES
    hot_level,  \* current_app.config['SNER_HEATMAP_HOT_LEVEL']
    queue,      \* ids of the Queue rows
    target,     \* Target rows: target[q][a] = rows of queue q with target a
    readynet,   \* Readynet rows <<queue_id, hashval>>
    heatmap,    \* Heatmap rows: hashval -> count, absent rows not in DOMAIN
    job,        \* Job rows: id -> [queue_id, targets, retval, pops]
    njobs,      \* job ids minted so far
    files,      \* job ids whose output file exists
    lockHolder, \* session holding advisory lock 1, or NoHandler
    lockDepth,  \* how many times the holder has locked it
    pc,         \* pc[h]: "idle", "get_lock", "locked"
    op,         \* op[h]: the operation handler h is in, or was in last
    arg,        \* arg[h]: the job the operation was called with, or the
                \* queue for flush, prune and queue delete; for job_assign
                \* the number of Target rows its loop popped; 0 for enqueue
    ret,        \* ret[h]: how the handler's last operation ended, and whether
                \* it called get_lock
    req         \* req[h]: the arguments of the handler's call, kept by the
                \* specifications whose claims speak of them

tables == <<queue, target, readynet, heatmap, job, njobs, files>>
vars == <<hot_level, queue, target, readynet, heatmap, job, njobs, files,
          lockHolder, lockDepth, pc, op, arg, ret, req>>

\* the tables as one value, the form the operations below map
DB == [hot_level |-> hot_level, queue |-> queue, target |-> target, readynet |-> readynet, heatmap |-> heatmap,
       job |-> job, njobs |-> njobs, files |-> files]

\* Target.hashval is set from hashval(target) when the row is inserted
TargetsIn(tg, q, hv) == {a \in Addrs : tg[q][a] > 0 /\ hashval(a) = hv}
TargetRows(tg) == SumOver([x \in QueueIds \X Addrs |-> tg[x[1]][x[2]]], QueueIds \X Addrs)

\* -------------------------------------------------- SchedulerService helpers

grep_hot_hashvals(d, hashvals) ==
    {hv \in hashvals : hv \in DOMAIN d.heatmap /\ d.heatmap[hv] >= d.hot_level}

\* the upsert of heatmap_put / heatmap_pop: insert count 1, or add delta
Upsert(hm, hv, delta) ==
    [x \in DOMAIN hm \cup {hv} |->
        IF x # hv THEN hm[x]
        ELSE IF hv \in DOMAIN hm THEN hm[hv] + delta ELSE 1]

heatmap_put(d, hv) ==
    LET hm == Upsert(d.heatmap, hv, 1)
        heat_count == hm[hv]
    IN  [d EXCEPT !.heatmap = hm,
                  !.readynet = IF heat_count >= d.hot_level
                               THEN {r \in d.readynet : r[2] # hv}
                               ELSE d.readynet]

\* heatmap_pop with the cooling test dropped: Readynet rows are not re-created
heatmap_pop_no_cooling(d, hv, gc) ==
    LET hm == Upsert(d.heatmap, hv, -1)
        kept == IF gc THEN [x \in {y \in DOMAIN hm : hm[y] # 0} |-> hm[x]] ELSE hm
    IN  [ok |-> TRUE, d |-> [d EXCEPT !.heatmap = kept]]

\* heatmap_pop; gc says whether random() fell below HEATMAP_GC_PROBABILITY.
\* The Readynet insert is a plain insert: it raises on an existing row, and
\* the statements of this call, not yet committed, are rolled back.
heatmap_pop(d, hv, gc) ==
    LET hm == Upsert(d.heatmap, hv, -1)
        heat_count == hm[hv]
        kept == IF gc THEN [x \in {y \in DOMAIN hm : hm[y] # 0} |-> hm[x]] ELSE hm
        qids == {q \in QueueIds : TargetsIn(d.target, q, hv) # {}}
        rows == {<<q, hv>> : q \in qids}
    IN  IF heat_count + 1 = d.hot_level
        THEN IF rows \cap d.readynet # {}
             THEN [ok |-> FALSE, d |-> d]
             ELSE [ok |-> TRUE,
                   d |-> [d EXCEPT !.heatmap = kept, !.readynet = d.readynet \cup rows]]
        ELSE [ok |-> TRUE, d |-> [d EXCEPT !.heatmap = kept]]

\* _get_assignment_queue ordered by func.random() alone
get_assignment_queue_no_priority(qs, rn, queue_name, client_caps) ==
    {q \in qs :
        /\ QueueRow(q).active
        /\ QueueRow(q).reqs \subseteq client_caps
        /\ \E r \in rn : r[1] = q
        /\ (queue_name # "" => QueueRow(q).name = queue_name)}

\* _get_assignment_queue without the Queue.active filter
get_assignment_queue_any_state(qs, rn, queue_name, client_caps) ==
    LET eligible == {q \in qs :
                        /\ QueueRow(q).reqs \subseteq client_caps
                        /\ \E r \in rn : r[1] = q
                        /\ (queue_name # "" => QueueRow(q).name = queue_name)}
    IN  {q \in eligible :
            \A o \in eligible : QueueRow(o).priority <= QueueRow(q).priority}

\* _get_assignment_queue: the queues the query may return first
get_assignment_queue(qs, rn, queue_name, client_caps) ==
    LET eligible == {q \in qs :
                        /\ QueueRow(q).active
                        /\ QueueRow(q).reqs \subseteq client_caps
                        /\ \E r \in rn : r[1] = q
                        /\ (queue_name # "" => QueueRow(q).name = queue_name)}
    IN  {q \in eligible :
            \A o \in eligible : QueueRow(o).priority <= QueueRow(q).priority}

\* _pop_random_target: every outcome the random choices allow.
\* kind "none": no Readynet row; "error": the Readynet row has no Target, the
\* unpacking of .first() raises; "target": a row was popped.
pop_random_target(d, q) ==
    LET hvs == {r[2] : r \in {x \in d.readynet : x[1] = q}}
    IN  IF hvs = {}
        THEN {[kind |-> "none", d |-> d, target |-> BlankTarget, hashval |-> BlankTarget]}
        ELSE UNION {
            IF TargetsIn(d.target, q, hv) = {}
            THEN {[kind |-> "error", d |-> d, target |-> BlankTarget, hashval |-> hv]}
            ELSE {LET tg == [d.target EXCEPT ![q][a] = @ - 1]
                  IN  [kind |-> "target",
                       d |-> [d EXCEPT !.target = tg,
                                       !.readynet = IF TargetsIn(tg, q, hv) = {}
                                                    THEN d.readynet \ {<<q, hv>>}
                                                    ELSE d.readynet],
                       target |-> a, hashval |-> hv]
                  : a \in TargetsIn(d.target, q, hv)}
            : hv \in hvs}

\* the while loop of job_assign with its test off by one: it runs while
\* len(assigned_targets) <= queue.group_size
RECURSIVE AssignLoop_one_more(_, _, _)
AssignLoop_one_more(d, q, assigned_targets) ==
    IF Len(assigned_targets) > QueueRow(q).group_size
    THEN {[d |-> d, assigned_targets |-> assigned_targets, err |-> FALSE]}
    ELSE UNION {
        IF rtarget.kind = "none"
        THEN {[d |-> d, assigned_targets |-> assigned_targets, err |-> FALSE]}
        ELSE IF rtarget.kind = "error"
        THEN {[d |-> d, assigned_targets |-> assigned_targets, err |-> TRUE]}
        ELSE IF BlacklistMatch(rtarget.target)
        THEN AssignLoop_one_more(rtarget.d, q, assigned_targets)
        ELSE AssignLoop_one_more(heatmap_put(rtarget.d, rtarget.hashval), q,
                                 Append(assigned_targets, rtarget.target))
        : rtarget \in pop_random_target(d, q)}

\* the while loop of job_assign without the blacklist test
RECURSIVE AssignLoop_no_blacklist(_, _, _)
AssignLoop_no_blacklist(d, q, assigned_targets) ==
    IF Len(assigned_targets) >= QueueRow(q).group_size
    THEN {[d |-> d, assigned_targets |-> assigned_targets, err |-> FALSE]}
    ELSE UNION {
        IF rtarget.kind = "none"
        THEN {[d |-> d, assigned_targets |-> assigned_targets, err |-> FALSE]}
        ELSE IF rtarget.kind = "error"
        THEN {[d |-> d, assigned_targets |-> assigned_targets, err |-> TRUE]}
        ELSE AssignLoop_no_blacklist(heatmap_put(rtarget.d, rtarget.hashval), q,
                                     Append(assigned_targets, rtarget.target))
        : rtarget \in pop_random_target(d, q)}

\* the while loop of job_assign with heatmap_put moved before the blacklist test
RECURSIVE AssignLoop_put_first(_, _, _)
AssignLoop_put_first(d, q, assigned_targets) ==
    IF Len(assigned_targets) >= QueueRow(q).group_size
    THEN {[d |-> d, assigned_targets |-> assigned_targets, err |-> FALSE]}
    ELSE UNION {
        IF rtarget.kind = "none"
        THEN {[d |-> d, assigned_targets |-> assigned_targets, err |-> FALSE]}
        ELSE IF rtarget.kind = "error"
        THEN {[d |-> d, assigned_targets |-> assigned_targets, err |-> TRUE]}
        ELSE IF BlacklistMatch(rtarget.target)
        THEN AssignLoop_put_first(heatmap_put(rtarget.d, rtarget.hashval), q,
                                  assigned_targets)
        ELSE AssignLoop_put_first(heatmap_put(rtarget.d, rtarget.hashval), q,
                                  Append(assigned_targets, rtarget.target))
        : rtarget \in pop_random_target(d, q)}

\* the while loop of job_assign: every way it can end
RECURSIVE AssignLoop(_, _, _)
AssignLoop(d, q, assigned_targets) ==
    IF Len(assigned_targets) >= QueueRow(q).group_size
    THEN {[d |-> d, assigned_targets |-> assigned_targets, err |-> FALSE]}
    ELSE UNION {
        IF rtarget.kind = "none"
        THEN {[d |-> d, assigned_targets |-> assigned_targets, err |-> FALSE]}
        ELSE IF rtarget.kind = "error"
        THEN {[d |-> d, assigned_targets |-> assigned_targets, err |-> TRUE]}
        ELSE IF BlacklistMatch(rtarget.target)
        THEN AssignLoop(rtarget.d, q, assigned_targets)
        ELSE AssignLoop(heatmap_put(rtarget.d, rtarget.hashval), q,
                        Append(assigned_targets, rtarget.target))
        : rtarget \in pop_random_target(d, q)}

\* the for loop of job_output and reconcile over the job's targets: every way
\* it can end; pops counts the heatmap_pop calls that committed
RECURSIVE DrainLoop(_, _, _)
DrainLoop(d, targets, pops) ==
    IF targets = <<>>
    THEN {[d |-> d, pops |-> pops, err |-> FALSE]}
    ELSE UNION {
        LET res == heatmap_pop(d, hashval(Head(targets)), gc)
        IN  IF res.ok
            THEN DrainLoop(res.d, Tail(targets), pops + 1)
            ELSE {[d |-> d, pops |-> pops, err |-> TRUE]}
        : gc \in BOOLEAN}

\* ------------------------------------------------------ operation outcomes

\* How a call ends: the tables it leaves, its status ("ok", "assigned" and
\* "nowork" for the two returns of job_assign, "error" for a raise), whether
\* it called get_lock, and whether it ended without release_lock after
\* get_lock succeeded.
Out(d, status, locked, held) ==
    [d |-> d, status |-> status, locked |-> locked, held |-> held]

\* ------------------------------------------------------------- QueueManager

\* the rows enqueue writes under the lock: Target rows for every stripped
\* target, a Readynet row for every bucket among them that is not hot
enqueue_rows(d, q, enqueued) ==
    LET enqueued_hashvals == {hashval(enqueued[i]) : i \in DOMAIN enqueued}
        hot_hashvals == grep_hot_hashvals(d, enqueued_hashvals)
        added(a) == Cardinality({i \in DOMAIN enqueued : enqueued[i] = a})
    IN  [d EXCEPT !.target = [d.target EXCEPT ![q] = [a \in Addrs |-> @[a] + added(a)]],
                  !.readynet = d.readynet \cup
                               {<<q, hv>> : hv \in enqueued_hashvals \ hot_hashvals}]

\* QueueManager.enqueue: nothing, not even get_lock, for an empty list
enqueue(d, q, targets) ==
    LET enqueued == Stripped(targets)
    IN  IF enqueued = <<>>
        THEN {Out(d, "ok", FALSE, FALSE)}
        ELSE {Out(enqueue_rows(d, q, enqueued), "ok", TRUE, FALSE)}

\* QueueManager.flush
flush(d, q) ==
    {Out([d EXCEPT !.target = [d.target EXCEPT ![q] = [a \in Addrs |-> 0]],
                   !.readynet = {r \in d.readynet : r[1] # q}],
         "ok", TRUE, FALSE)}

\* --------------------------------------------------------------- JobManager

JobsOf(jb, q) == {j \in DOMAIN jb : jb[j].queue_id = q}
Without(jb, gone) == [j \in DOMAIN jb \ gone |-> jb[j]]

\* JobManager.delete without its retval test
job_delete_unguarded(d, j) ==
    {Out([d EXCEPT !.job = Without(d.job, {j}), !.files = d.files \ {j}],
         "ok", FALSE, FALSE)}

\* JobManager.delete: refused for a running job, else the output file is
\* unlinked and the row deleted; get_lock is not called
job_delete(d, j) ==
    IF d.job[j].retval = NoRetval
    THEN {Out(d, "error", FALSE, FALSE)}
    ELSE {Out([d EXCEPT !.job = Without(d.job, {j}), !.files = d.files \ {j}],
              "ok", FALSE, FALSE)}

\* the loop "for job in queue.jobs: JobManager.delete(job)": the jobs deleted
\* (each delete commits) and whether it raised. queue.jobs has no stated
\* order, so any set of finished jobs may come before the first running one.
delete_jobs(jb, q) ==
    LET running == {j \in JobsOf(jb, q) : jb[j].retval = NoRetval}
        finished == JobsOf(jb, q) \ running
    IN  IF running = {}
        THEN {[deleted |-> finished, err |-> FALSE]}
        ELSE {[deleted |-> D, err |-> TRUE] : D \in SUBSET finished}

\* QueueManager.prune
prune(d, q) ==
    {Out([d EXCEPT !.job = Without(d.job, r.deleted), !.files = d.files \ r.deleted],
         IF r.err THEN "error" ELSE "ok", FALSE, FALSE)
     : r \in delete_jobs(d.job, q)}

\* QueueManager.delete: the job loop, then under the lock the Queue row goes,
\* and with it its Target, Readynet and Job rows
queue_delete(d, q) ==
    {LET d1 == [d EXCEPT !.job = Without(d.job, r.deleted),
                         !.files = d.files \ r.deleted]
     IN  IF r.err
         THEN Out(d1, "error", FALSE, FALSE)
         ELSE Out([d1 EXCEPT !.queue = d.queue \ {q},
                             !.target = [d.target EXCEPT ![q] = [a \in Addrs |-> 0]],
                             !.readynet = {x \in d.readynet : x[1] # q},
                             !.job = Without(d1.job, JobsOf(d1.job, q))],
                  "ok", TRUE, FALSE)
     : r \in delete_jobs(d.job, q)}

\* JobManager.create; fails: yaml.safe_load raises on a malformed
\* queue.config, or the commit raises
create(d, q, assigned_targets, fails) ==
    IF fails
    THEN [ok |-> FALSE, d |-> d]
    ELSE [ok |-> TRUE,
          d |-> [d EXCEPT !.njobs = @ + 1,
                          !.job = [j \in DOMAIN d.job \cup {d.njobs + 1} |->
                                    IF j = d.njobs + 1
                                    THEN [queue_id |-> q, targets |-> assigned_targets,
                                          retval |-> NoRetval, pops |-> 0]
                                    ELSE d.job[j]]]]

\* JobManager.finish; fault says where it raises, if at all: "write" in
\* opath.write_bytes, "commit" in the commit after the file was written
finish(d, j, retval, fault) ==
    IF fault = "write"
    THEN [ok |-> FALSE, d |-> d]
    ELSE IF fault = "commit"
    THEN [ok |-> FALSE, d |-> [d EXCEPT !.files = @ \cup {j}]]
    ELSE [ok |-> TRUE, d |-> [d EXCEPT !.files = @ \cup {j},
                                       !.job[j].retval = Some(retval)]]

\* the heatmap_pop loop of job_output and reconcile, with its count of pops
\* recorded in the Job row
drain(d, j) ==
    {[d |-> [r.d EXCEPT !.job[j].pops = @ + r.pops], pops |-> r.pops, err |-> r.err]
     : r \in DrainLoop(d, d.job[j].targets, 0)}

\* JobManager.reconcile. The write of retval is pending until the first
\* heatmap_pop commits; a loop that raises in its first heatmap_pop loses it.
reconcile(d, j) ==
    IF d.job[j].retval # NoRetval
    THEN {Out(d, "error", FALSE, FALSE)}
    ELSE {IF r.err
          THEN Out(IF r.pops > 0 THEN r.d ELSE d, "error", TRUE, TRUE)
          ELSE Out(r.d, "ok", TRUE, FALSE)
          : r \in drain([d EXCEPT !.job[j].retval = Some(-1)], j)}

\* JobManager.repeat
repeat(d, j) == enqueue(d, d.job[j].queue_id, d.job[j].targets)

\* ---------------------------------------------------------- SchedulerService

\* SchedulerService.job_assign
job_assign(d, queue_name, client_caps, create_fails) ==
    LET queues == get_assignment_queue(d.queue, d.readynet, queue_name, client_caps)
    IN  IF queues = {}
        THEN {Out(d, "nowork", TRUE, FALSE)}
        ELSE UNION {
            {IF r.err
             THEN Out(r.d, "error", TRUE, TRUE)
             ELSE IF r.assigned_targets = <<>>
             THEN Out(r.d, "nowork", TRUE, FALSE)
             ELSE LET c == create(r.d, q, r.assigned_targets, create_fails)
                  IN  IF c.ok
                      THEN Out(c.d, "assigned", TRUE, FALSE)
                      ELSE Out(c.d, "error", TRUE, TRUE)
             : r \in AssignLoop(d, q, <<>>)}
            : q \in queues}

\* SchedulerService.job_output without its heatmap_pop loop
job_output_no_drain(d, j, retval, fault) ==
    LET f == finish(d, j, retval, fault)
    IN  IF ~f.ok
        THEN {Out(f.d, "error", TRUE, TRUE)}
        ELSE {Out(f.d, "ok", TRUE, FALSE)}

\* SchedulerService.job_output
job_output(d, j, retval, fault) ==
    LET f == finish(d, j, retval, fault)
    IN  IF ~f.ok
        THEN {Out(f.d, "error", TRUE, TRUE)}
        ELSE {IF r.err
              THEN Out(r.d, "error", TRUE, TRUE)
              ELSE Out(r.d, "ok", TRUE, FALSE)
              : r \in drain(f.d, j)}

\* ------------------------------------------------------------------ actions

\* the timeout each operation passes to get_lock
LockTimeout(o) ==
    IF o = "job_assign" THEN TIMEOUT_JOB_ASSIGN
    ELSE IF o = "job_output" THEN TIMEOUT_JOB_OUTPUT
    ELSE 0

\* Handler h runs one call from start to end with outcome o. Its session
\* gets the lock at once when the lock is free or already its own
\* (session-level advisory locks stack); a call that raises between get_lock
\* and release_lock leaves one more level held.
Call(h, name, a, o) ==
    /\ pc[h] = "idle"
    /\ o.locked => lockHolder \in {NoHandler, h}
    /\ o.held => lockDepth < MaxLockDepth
    /\ queue' = o.d.queue
    /\ target' = o.d.target
    /\ readynet' = o.d.readynet
    /\ heatmap' = o.d.heatmap
    /\ job' = o.d.job
    /\ njobs' = o.d.njobs
    /\ files' = o.d.files
    /\ lockHolder' = IF o.held THEN h ELSE lockHolder
    /\ lockDepth' = IF o.held THEN lockDepth + 1 ELSE lockDepth
    /\ ret' = [ret EXCEPT ![h] = [status |-> o.status, locked |-> o.locked]]
    /\ op' = [op EXCEPT ![h] = name]
    /\ arg' = [arg EXCEPT ![h] = a]
    /\ UNCHANGED <<hot_level, pc>>

Run(h, name, a, o) == Call(h, name, a, o) /\ UNCHANGED req

Enqueue(h, q, raw) ==
    /\ q \in queue
    /\ TargetRows(target) + Len(Stripped(raw)) <= MaxTargets
    /\ \E o \in enqueue(DB, q, raw) : Run(h, "enqueue", 0, o)

Flush(h, q) ==
    /\ q \in queue
    /\ \E o \in flush(DB, q) : Run(h, "flush", q, o)

Prune(h, q) ==
    /\ q \in queue
    /\ \E o \in prune(DB, q) : Run(h, "prune", q, o)

QueueDelete(h, q) ==
    /\ q \in queue
    /\ \E o \in queue_delete(DB, q) : Run(h, "queue_delete", q, o)

JobDelete(h, j) ==
    /\ j \in DOMAIN job
    /\ \E o \in job_delete(DB, j) : Run(h, "job_delete", j, o)

Reconcile(h, j) ==
    /\ j \in DOMAIN job
    /\ \E o \in reconcile(DB, j) : Run(h, "reconcile", j, o)

Repeat(h, j) ==
    /\ j \in DOMAIN job
    /\ TargetRows(target) + Len(job[j].targets) <= MaxTargets
    /\ \E o \in repeat(DB, j) : Run(h, "repeat", j, o)

JobAssign(h, queue_name, client_caps, create_fails) ==
    /\ njobs < MaxJobs
    /\ \E o \in job_assign(DB, queue_name, client_caps, create_fails) :
            Run(h, "job_assign", TargetRows(target) - TargetRows(o.d.target), o)

JobOutput(h, j, retval, fault) ==
    /\ j \in DOMAIN job
    /\ job[j].pops + Len(job[j].targets) <= MaxDrains * Len(job[j].targets)
    /\ \E o \in job_output(DB, j, retval, fault) : Run(h, "job_output", j, o)

\* ------------------------------------------------------------ specification

RawLists == UNION {[1..n -> RawTargets] : n \in 0..MaxEnqueue}
Faults == {"none", "write", "commit"}
NoRet == [status |-> "none", locked |-> FALSE]
NoReq == [queue_name |-> "none", client_caps |-> {}]

\* the state before the first call, with the Queue rows qs
InitWith(qs) ==
    /\ hot_level \in 1..MaxHotLevel
    /\ queue = qs
    /\ target = [q \in QueueIds |-> [a \in Addrs |-> 0]]
    /\ readynet = {}
    /\ heatmap = <<>>
    /\ job = <<>>
    /\ njobs = 0
    /\ files = {}
    /\ lockHolder = NoHandler
    /\ lockDepth = 0
    /\ pc = [h \in Handlers |-> "idle"]
    /\ op = [h \in Handlers |-> "none"]
    /\ arg = [h \in Handlers |-> 0]
    /\ ret = [h \in Handlers |-> NoRet]
    /\ req = [h \in Handlers |-> NoReq]

\* the two active queues exist
Init == InitWith(ActiveQueues)

\* one session serving one request after another
Next ==
    \E h \in {"h1"} :
        \/ \E q \in QueueIds, raw \in RawLists : Enqueue(h, q, raw)
        \/ \E q \in QueueIds : Flush(h, q)
        \/ \E q \in QueueIds : Prune(h, q)
        \/ \E q \in QueueIds : QueueDelete(h, q)
        \/ \E j \in 1..MaxJobs : JobDelete(h, j)
        \/ \E j \in 1..MaxJobs : Reconcile(h, j)
        \/ \E j \in 1..MaxJobs : Repeat(h, j)
        \/ \E n \in QueueNames, c \in ClientCaps, f \in BOOLEAN : JobAssign(h, n, c, f)
        \/ \E j \in 1..MaxJobs, v \in RetVals, f \in Faults : JobOutput(h, j, v, f)

Spec == Init /\ [][Next]_vars

\* ----------------------------------- specification of the assignment claims

\* The calls of the agent protocol and enqueue, with the arguments of
\* job_assign kept in req; all three queues exist.
EnqueueRec(h, q, raw) ==
    /\ q \in queue
    /\ TargetRows(target) + Len(Stripped(raw)) <= MaxTargets
    /\ \E o \in enqueue(DB, q, raw) : Call(h, "enqueue", 0, o)
    /\ req' = [req EXCEPT ![h] = NoReq]

JobAssignRec(h, queue_name, client_caps, create_fails) ==
    /\ njobs < MaxJobs
    /\ \E o \in job_assign(DB, queue_name, client_caps, create_fails) :
            Call(h, "job_assign", TargetRows(target) - TargetRows(o.d.target), o)
    /\ req' = [req EXCEPT ![h] = [queue_name |-> queue_name, client_caps |-> client_caps]]

JobOutputRec(h, j, retval, fault) ==
    /\ j \in DOMAIN job
    /\ job[j].pops + Len(job[j].targets) <= MaxDrains * Len(job[j].targets)
    /\ \E o \in job_output(DB, j, retval, fault) : Call(h, "job_output", j, o)
    /\ req' = [req EXCEPT ![h] = NoReq]

InitAssign == InitWith(QueueIds)

NextAssign ==
    \E h \in {"h1"} :
        \/ \E q \in QueueIds, raw \in RawLists : EnqueueRec(h, q, raw)
        \/ \E n \in AllQueueNames, c \in ClientCaps, f \in BOOLEAN : JobAssignRec(h, n, c, f)
        \/ \E j \in 1..MaxJobs, v \in RetVals, f \in Faults : JobOutputRec(h, j, v, f)

SpecAssign == InitAssign /\ [][NextAssign]_vars

\* ------------------------------------------- specification of the lock claims

\* Two handlers, each on its own database session, run enqueue and
\* job_assign step by step: the call up to get_lock, get_lock, and the locked
\* section up to release_lock. req[h] holds the queue name and client_caps of
\* the call.
QueueNamed(name) == CHOOSE q \in QueueIds : QueueRow(q).name = name

\* handlers that are inside a call of the operation name
Inside(name) == {h \in Handlers : pc[h] # "idle" /\ op[h] = name}

\* enqueue(queue, targets) with a target list that is not empty, up to get_lock
BeginEnqueue(h, q) ==
    /\ pc[h] = "idle"
    /\ q \in queue
    /\ TargetRows(target) + Cardinality(Inside("enqueue")) < MaxTargets
    /\ pc' = [pc EXCEPT ![h] = "get_lock"]
    /\ op' = [op EXCEPT ![h] = "enqueue"]
    /\ req' = [req EXCEPT ![h] = [queue_name |-> QueueRow(q).name, client_caps |-> {}]]
    /\ UNCHANGED <<hot_level, tables, lockHolder, lockDepth, arg, ret>>

\* job_assign(queue_name, client_caps) up to get_lock
BeginJobAssign(h, queue_name, client_caps) ==
    /\ pc[h] = "idle"
    /\ njobs + Cardinality(Inside("job_assign")) < MaxJobs
    /\ pc' = [pc EXCEPT ![h] = "get_lock"]
    /\ op' = [op EXCEPT ![h] = "job_assign"]
    /\ req' = [req EXCEPT ![h] = [queue_name |-> queue_name, client_caps |-> client_caps]]
    /\ UNCHANGED <<hot_level, tables, lockHolder, lockDepth, arg, ret>>

\* get_lock: pg_advisory_lock returns when the lock is free or already held
\* by the caller's own session, whose holds stack
GetLock(h) ==
    /\ pc[h] = "get_lock"
    /\ lockHolder \in {NoHandler, h}
    /\ lockHolder' = h
    /\ lockDepth' = lockDepth + 1
    /\ pc' = [pc EXCEPT ![h] = "locked"]
    /\ UNCHANGED <<hot_level, tables, op, arg, ret, req>>

\* get_lock: lock_timeout = timeout*100 ms expires while another session
\* holds the lock; rollback, SchedulerServiceBusyException. lock_timeout = 0
\* disables the timeout, the statement then waits for the lock.
GetLockBusy(h) ==
    /\ pc[h] = "get_lock"
    /\ lockHolder \notin {NoHandler, h}
    /\ LockTimeout(op[h]) * 100 > 0
    /\ pc' = [pc EXCEPT ![h] = "idle"]
    /\ ret' = [ret EXCEPT ![h] = [status |-> "busy", locked |-> TRUE]]
    /\ UNCHANGED <<hot_level, tables, lockHolder, lockDepth, op, arg, req>>

\* the ways the locked section of the call of h can end
SectionOutcomes(h) ==
    IF op[h] = "enqueue"
    THEN UNION {enqueue(DB, QueueNamed(req[h].queue_name), raw) :
                    raw \in {r \in RawLists : Len(Stripped(r)) = 1}}
    ELSE UNION {job_assign(DB, req[h].queue_name, req[h].client_caps, f) :
                    f \in BOOLEAN}

\* the locked section, from get_lock's return to release_lock or to a raise
\* that skips it; holds leaked beyond MaxLockDepth are not counted
LockedSection(h) ==
    /\ pc[h] = "locked"
    /\ \E o \in SectionOutcomes(h) :
        /\ queue' = o.d.queue
        /\ target' = o.d.target
        /\ readynet' = o.d.readynet
        /\ heatmap' = o.d.heatmap
        /\ job' = o.d.job
        /\ njobs' = o.d.njobs
        /\ files' = o.d.files
        /\ lockDepth' = IF o.held /\ lockDepth <= MaxLockDepth
                         THEN lockDepth ELSE lockDepth - 1
        /\ lockHolder' = IF lockDepth' = 0 THEN NoHandler ELSE h
        /\ ret' = [ret EXCEPT ![h] = [status |-> o.status, locked |-> TRUE]]
    /\ pc' = [pc EXCEPT ![h] = "idle"]
    /\ UNCHANGED <<hot_level, op, arg, req>>

NextLock ==
    \E h \in Handlers :
        \/ \E q \in ActiveQueues : BeginEnqueue(h, q)
        \/ \E n \in QueueNames, c \in ClientCaps : BeginJobAssign(h, n, c)
        \/ GetLock(h)
        \/ GetLockBusy(h)
        \/ LockedSection(h)

\* A handler inside a call goes on; the lock queue of the database is fair, a
\* waiting session gets the lock if it is free again and again.
SpecLock ==
    /\ Init
    /\ [][NextLock]_vars
    /\ \A h \in Handlers :
        /\ SF_vars(GetLock(h))
        /\ WF_vars(GetLockBusy(h))
        /\ WF_vars(LockedSection(h))

\* -------------------------------------------- specification of the round trip

\* One queue, q1 or q2, and an agent with the nmap capability, which
\* satisfies the reqs of either. Targets are enqueued first; from its first job_assign on, the agent only calls job_assign and
\* submits the output of every job it was given, once. No call raises: the
\* queue's config is valid YAML and the output file can be written.
EnqueueFirst(h, q, raw) ==
    /\ op[h] \in {"none", "enqueue"}
    /\ Enqueue(h, q, raw)

AgentAssign(h) ==
    JobAssign(h, "", {"nmap"}, FALSE)

AgentOutput(h, j) ==
    /\ j \in DOMAIN job
    /\ job[j].retval = NoRetval
    /\ JobOutput(h, j, 0, "none")

InitRoundTrip == \E q \in ActiveQueues : InitWith({q})

NextRoundTrip ==
    \/ \E q \in QueueIds, raw \in RawLists : EnqueueFirst("h1", q, raw)
    \/ AgentAssign("h1")
    \/ \E j \in 1..MaxJobs : AgentOutput("h1", j)

\* the agent keeps polling and submits every output
SpecRoundTrip ==
    /\ InitRoundTrip
    /\ [][NextRoundTrip]_vars
    /\ WF_vars(AgentAssign("h1"))
    /\ \A j \in 1..MaxJobs : WF_vars(AgentOutput("h1", j))

\* ------------------------------ specification of the terminal-state claims

\* Two handlers, each on its own database session, run job_output and
\* reconcile step by step on the jobs of one queue, q1 or q2, which the
\* first handler creates by job_assign after it has enqueued the targets.
\* arg[h] is the job of the call.
InsideOn(j) == {h \in Handlers : pc[h] # "idle" /\ arg[h] = j}

\* calls on job j are started while the drains they can add stay within
\* MaxDrains per target
MayDrain(j) ==
    job[j].pops + Len(job[j].targets) * (1 + Cardinality(InsideOn(j)))
        <= MaxDrains * Len(job[j].targets)

\* job_output(job, retval, output) up to get_lock: no test of job.retval
BeginJobOutput(h, j) ==
    /\ pc[h] = "idle"
    /\ j \in DOMAIN job
    /\ MayDrain(j)
    /\ pc' = [pc EXCEPT ![h] = "get_lock"]
    /\ op' = [op EXCEPT ![h] = "job_output"]
    /\ arg' = [arg EXCEPT ![h] = j]
    /\ UNCHANGED <<hot_level, tables, lockHolder, lockDepth, ret, req>>

\* reconcile(job) up to get_lock: the test of job.retval comes first and
\* raises for a finished job
BeginReconcile(h, j) ==
    /\ pc[h] = "idle"
    /\ j \in DOMAIN job
    /\ MayDrain(j)
    /\ op' = [op EXCEPT ![h] = "reconcile"]
    /\ arg' = [arg EXCEPT ![h] = j]
    /\ IF job[j].retval # NoRetval
       THEN /\ ret' = [ret EXCEPT ![h] = [status |-> "error", locked |-> FALSE]]
            /\ UNCHANGED pc
       ELSE /\ pc' = [pc EXCEPT ![h] = "get_lock"]
            /\ UNCHANGED ret
    /\ UNCHANGED <<hot_level, tables, lockHolder, lockDepth, req>>

\* reconcile after get_lock: job.retval = -1 and the heatmap_pop loop, with
\* no second look at the retval the row has by now
reconcile_section(d, j) ==
    {IF r.err
     THEN Out(IF r.pops > 0 THEN r.d ELSE d, "error", TRUE, TRUE)
     ELSE Out(r.d, "ok", TRUE, FALSE)
     : r \in drain([d EXCEPT !.job[j].retval = Some(-1)], j)}

\* the ways the locked section of the call of h on its job can end
JobSectionOutcomes(h) ==
    IF op[h] = "job_output"
    THEN UNION {job_output(DB, arg[h], v, f) : v \in RetVals, f \in Faults}
    ELSE reconcile_section(DB, arg[h])

\* the locked section of job_output or reconcile, from get_lock's return to
\* release_lock or to a raise that skips it; holds leaked beyond MaxLockDepth
\* are not counted
JobSection(h) ==
    /\ pc[h] = "locked"
    /\ \E o \in JobSectionOutcomes(h) :
        /\ queue' = o.d.queue
        /\ target' = o.d.target
        /\ readynet' = o.d.readynet
        /\ heatmap' = o.d.heatmap
        /\ job' = o.d.job
        /\ njobs' = o.d.njobs
        /\ files' = o.d.files
        /\ lockDepth' = IF o.held /\ lockDepth <= MaxLockDepth
                         THEN lockDepth ELSE lockDepth - 1
        /\ lockHolder' = IF lockDepth' = 0 THEN NoHandler ELSE h
        /\ ret' = [ret EXCEPT ![h] = [status |-> o.status, locked |-> TRUE]]
    /\ pc' = [pc EXCEPT ![h] = "idle"]
    /\ UNCHANGED <<hot_level, op, arg, req>>

NextTerminal ==
    \/ \E q \in QueueIds, raw \in RawLists : EnqueueFirst("h1", q, raw)
    \/ AgentAssign("h1")
    \/ \E h \in Handlers :
        \/ \E j \in 1..MaxJobs : BeginJobOutput(h, j)
        \/ \E j \in 1..MaxJobs : BeginReconcile(h, j)
        \/ GetLock(h)
        \/ GetLockBusy(h)
        \/ JobSection(h)

SpecTerminal == InitRoundTrip /\ [][NextTerminal]_vars

\* ------------------------------------------------------------------ claims

\* count of the Heatmap row of hv, 0 when the row is absent
Heat(hv) == IF hv \in DOMAIN heatmap THEN heatmap[hv] ELSE 0

\* targets of bucket hv in the assignments of running jobs
InFlight(hv) ==
    SumOver([j \in DOMAIN job |->
                IF job[j].retval = NoRetval THEN CountIn(job[j].targets, hv) ELSE 0],
            DOMAIN job)

\* no handler is inside a locked section
Quiet == \A h \in Handlers : pc[h] = "idle"

\* C1: in every reachable state, for every bucket, the targets of that bucket
\* in the assignments of running jobs number at most hot_level.
C1_RateLimit == \A hv \in Buckets : InFlight(hv) <= hot_level

\* C2: for every hashval the Heatmap count (0 when the row is absent) equals
\* the number of targets of that hashval in the assignments of running jobs.
C2_HeatmapConservation == \A hv \in Buckets : Heat(hv) = InFlight(hv)

\* C3: the heatmap is drained for a job's targets not at all while retval is
\* null, and exactly once, for every target, once retval is not null.
C3_DrainedOnce ==
    \A j \in DOMAIN job :
        job[j].pops = IF job[j].retval = NoRetval THEN 0 ELSE Len(job[j].targets)

\* C4: outside a locked section, every (queue, hashval) that has a Target row
\* and whose heatmap count is below hot_level has a Readynet row.
C4_ReadynetComplete ==
    Quiet => \A q \in QueueIds, hv \in Buckets :
                (TargetsIn(target, q, hv) # {} /\ Heat(hv) < hot_level)
                    => <<q, hv>> \in readynet

\* C4 witness: a job holding hot_level targets of one bucket was just drained,
\* a queue still holds a Target of that bucket, and its Readynet row is there.
C4_Witness ==
    /\ Quiet
    /\ op["h1"] \in {"job_output", "reconcile"}
    /\ ret["h1"].status = "ok"
    /\ \E j \in DOMAIN job, q \in QueueIds :
        LET hv == hashval(job[j].targets[1])
        IN  /\ arg["h1"] = j
            /\ job[j].pops = Len(job[j].targets)
            /\ CountIn(job[j].targets, hv) = hot_level
            /\ TargetsIn(target, q, hv) # {}
            /\ Heat(hv) < hot_level
            /\ <<q, hv>> \in readynet

\* C5: outside a locked section, every Readynet row (queue, hashval) has a
\* Target row with the same (queue, hashval), and the heatmap count of hashval
\* is below hot_level.
C5_ReadynetSound ==
    Quiet => \A r \in readynet :
                TargetsIn(target, r[1], r[2]) # {} /\ Heat(r[2]) < hot_level

\* the step just taken was the call `name` by the serving session, ending `status`
Did(name, status) == op'["h1"] = name /\ ret'["h1"].status = status

C7_AtomicOnError ==
    [][(ret'["h1"].status = "error" /\ ret'["h1"].locked)
            => UNCHANGED <<target, readynet, heatmap, job>>]_vars

\* C8: a handler that has finished its call, by return or by raise, does not
\* hold the advisory lock.
C8_LockReleased == \A h \in Handlers : pc[h] = "idle" => lockHolder # h

\* C9: reconcile on a running job sets its retval to -1 and lowers the count
\* of every bucket by the number of the job's targets in it; a bucket that
\* cools by this gets a Readynet row for every queue holding targets in it.
C9_ReconcileRestores ==
    [][\A j \in DOMAIN job :
        (op'["h1"] = "reconcile" /\ arg'["h1"] = j /\ job[j].retval = NoRetval) =>
            /\ j \in DOMAIN job' /\ job'[j].retval = Some(-1)
            /\ \A hv \in Buckets :
                /\ Heat(hv)' = Heat(hv) - CountIn(job[j].targets, hv)
                /\ (Heat(hv) >= hot_level /\ Heat(hv)' < hot_level) =>
                        \A q \in QueueIds :
                            TargetsIn(target, q, hv) # {} => <<q, hv>> \in readynet'
      ]_vars

\* C10: JobManager.delete on a running job and JobManager.reconcile on a
\* finished job raise, call get_lock not at all, and leave the Job rows, the
\* output files, the Heatmap and the Readynet as they were.
C10_Refusals ==
    [][\A j \in DOMAIN job :
        \/ /\ op'["h1"] = "job_delete" /\ arg'["h1"] = j /\ job[j].retval = NoRetval
        \/ /\ op'["h1"] = "reconcile" /\ arg'["h1"] = j /\ job[j].retval # NoRetval
        => /\ ret'["h1"] = [status |-> "error", locked |-> FALSE]
           /\ UNCHANGED <<job, files, heatmap, readynet, lockHolder, lockDepth>>
      ]_vars

\* C10 witness: JobManager.delete has just been refused for a job that is
\* still running
C10_Witness ==
    /\ op["h1"] = "job_delete"
    /\ ret["h1"] = [status |-> "error", locked |-> FALSE]
    /\ arg["h1"] \in DOMAIN job
    /\ job[arg["h1"]].retval = NoRetval

\* C11: when a queue has a running job, QueueManager.prune and
\* QueueManager.delete raise and delete none of the queue's jobs (nor their
\* output files), in whatever order the jobs are visited.
C11_PruneRefusesWhole ==
    [][\A q \in QueueIds :
        (/\ op'["h1"] \in {"prune", "queue_delete"}
         /\ arg'["h1"] = q
         /\ \E j \in JobsOf(job, q) : job[j].retval = NoRetval)
        => /\ ret'["h1"].status = "error"
           /\ UNCHANGED <<job, files>>
      ]_vars

\* the queues job_assign(queue_name, client_caps) may serve
Eligible(queue_name, client_caps) ==
    {q \in queue : /\ QueueRow(q).active
                   /\ QueueRow(q).reqs \subseteq client_caps
                   /\ (queue_name # "" => QueueRow(q).name = queue_name)}

\* C12: every non-empty assignment job_assign(queue_name, client_caps)
\* returns is drawn from a single queue that is active, whose reqs are within
\* client_caps and whose name is queue_name when that is not empty; when no
\* such queue has a Readynet row the call returns the empty assignment.
C12_EligibleQueue ==
    [][op'["h1"] = "job_assign" =>
        LET ok == Eligible(req'["h1"].queue_name, req'["h1"].client_caps)
        IN  /\ ret'["h1"].status = "assigned" =>
                /\ njobs' \in DOMAIN job' \ DOMAIN job
                /\ job'[njobs'].queue_id \in ok
                /\ \A q \in QueueIds \ {job'[njobs'].queue_id} : target'[q] = target[q]
                /\ \A a \in Range(job'[njobs'].targets) :
                        Cardinality({i \in DOMAIN job'[njobs'].targets :
                                        job'[njobs'].targets[i] = a})
                            <= target[job'[njobs'].queue_id][a]
                                - target'[job'[njobs'].queue_id][a]
            /\ (\A r \in readynet : r[1] \notin ok) =>
                /\ ret'["h1"].status = "nowork"
                /\ UNCHANGED <<target, readynet, heatmap, job>>
      ]_vars

\* C12 witness: an agent without the nmap capability, naming no queue, was
\* just assigned work of q2 while the inactive q3, of higher priority, has a
\* Readynet row
C12_Witness ==
    /\ op["h1"] = "job_assign"
    /\ ret["h1"].status = "assigned"
    /\ req["h1"] = [queue_name |-> "", client_caps |-> {}]
    /\ job[njobs].queue_id = 2
    /\ \E r \in readynet : r[1] = 3

\* C13: a job_assign call that names no queue pops Target rows only of a
\* queue whose priority is the highest among the eligible queues (active,
\* reqs within client_caps) that have a Readynet row; a queue of lower
\* priority is drawn from only when no eligible queue of higher priority has
\* a Readynet row.
C13_Priority ==
    [][(op'["h1"] = "job_assign" /\ req'["h1"].queue_name = "") =>
        LET ready == {q \in Eligible("", req'["h1"].client_caps) :
                        \E r \in readynet : r[1] = q}
        IN  \A q \in QueueIds :
                target'[q] # target[q] =>
                    /\ q \in ready
                    /\ \A o \in ready : QueueRow(o).priority <= QueueRow(q).priority
      ]_vars

\* C13 witness: an agent with the nmap capability, naming no queue, was just
\* assigned work of q1 (priority 10) while q2 (priority 5), eligible too,
\* has a Target row and a Readynet row
C13_Witness ==
    /\ op["h1"] = "job_assign"
    /\ ret["h1"].status = "assigned"
    /\ req["h1"] = [queue_name |-> "", client_caps |-> {"nmap"}]
    /\ job[njobs].queue_id = 1
    /\ \E r \in readynet : r[1] = 2 /\ TargetsIn(target, 2, r[2]) # {}

\* occurrences of a in the sequence s
Occurrences(s, a) == Cardinality({i \in DOMAIN s : s[i] = a})

\* C14: every Job row job_assign creates holds between 1 and
\* queue.group_size targets, each of them a Target row popped from that
\* queue by this call; no other queue loses a Target row, and no Job row is
\* ever created with an empty target list.
C14_AssignmentBound ==
    [][\A j \in DOMAIN job' \ DOMAIN job :
        LET q == job'[j].queue_id
            targets == job'[j].targets
        IN  /\ op'["h1"] = "job_assign"
            /\ 1 <= Len(targets)
            /\ Len(targets) <= QueueRow(q).group_size
            /\ \A a \in Addrs :
                    Occurrences(targets, a) <= target[q][a] - target'[q][a]
            /\ \A o \in QueueIds \ {q} : target'[o] = target[o]
      ]_vars

\* C14 witness: job_assign has just created a job of q1 that holds
\* group_size = 2 targets
C14_Witness ==
    /\ op["h1"] = "job_assign"
    /\ ret["h1"].status = "assigned"
    /\ job[njobs].queue_id = 1
    /\ Len(job[njobs].targets) = QueueRow(1).group_size

\* C15: in a job_assign call that returns, the Target rows popped are the
\* assigned targets plus blacklisted ones; a blacklisted target is in no
\* assignment, its rows only go (none comes back), the heatmap count of every
\* bucket rises by the assigned targets of the bucket alone, and an assignment
\* shorter than group_size means the queue ran out of Readynet rows, however
\* many blacklisted targets were popped on the way.
C15_Blacklist ==
    [][(op'["h1"] = "job_assign" /\ ret'["h1"].status \in {"assigned", "nowork"}) =>
        LET new == IF ret'["h1"].status = "assigned" THEN job'[njobs'].targets ELSE <<>>
        IN  /\ \A a \in Addrs : BlacklistMatch(a) => Occurrences(new, a) = 0
            /\ \A q \in QueueIds, a \in Addrs :
                    IF BlacklistMatch(a)
                    THEN target'[q][a] <= target[q][a]
                    ELSE target[q][a] - target'[q][a] =
                            IF target'[q] # target[q] THEN Occurrences(new, a) ELSE 0
            /\ \A hv \in Buckets : Heat(hv)' = Heat(hv) + CountIn(new, hv)
            /\ \A q \in QueueIds :
                    (target'[q] # target[q] /\ Len(new) < QueueRow(q).group_size)
                        => \A r \in readynet' : r[1] # q
      ]_vars

\* C15 witness: job_assign on q2 (group_size 1) has just popped two Target
\* rows, the blacklisted 10.0.1.1 and 10.0.0.1, and assigned the latter alone
C15_Witness ==
    /\ op["h1"] = "job_assign"
    /\ ret["h1"].status = "assigned"
    /\ arg["h1"] = 2
    /\ job[njobs].queue_id = 2
    /\ job[njobs].targets = <<(<<10, 0, 0, 1>>)>>

\* Target rows holding a, and positions of assignments holding a
Queued(a) == SumOver([q \in QueueIds |-> target[q][a]], QueueIds)
Assigned(a) ==
    SumOver([j \in DOMAIN job |-> Occurrences(job[j].targets, a)], DOMAIN job)

\* no Target row, no Readynet row, every Heatmap count 0 or its row gone,
\* every job finished
Drained ==
    /\ \A a \in Addrs : Queued(a) = 0
    /\ readynet = {}
    /\ \A hv \in Buckets : Heat(hv) = 0
    /\ \A j \in DOMAIN job : job[j].retval # NoRetval

Flushed(q) == \A a \in Addrs : target[q][a] = 0

\* C17: flush(q) deletes every Target and Readynet row of q and changes
\* nothing else; a job_output or reconcile that then finishes a running job
\* of the flushed queue lowers the heatmap count of every bucket by the
\* job's targets in it and creates no Readynet row for that queue.
C17_FlushFrame ==
    [][/\ \A q \in QueueIds :
            (op'["h1"] = "flush" /\ arg'["h1"] = q) =>
                /\ Flushed(q)'
                /\ \A o \in QueueIds \ {q} : target'[o] = target[o]
                /\ readynet' = {r \in readynet : r[1] # q}
                /\ UNCHANGED <<queue, heatmap, job, njobs, files>>
       /\ \A j \in DOMAIN job :
            (/\ op'["h1"] \in {"job_output", "reconcile"}
             /\ arg'["h1"] = j
             /\ ret'["h1"].status = "ok"
             /\ job[j].retval = NoRetval
             /\ Flushed(job[j].queue_id)) =>
                /\ \A hv \in Buckets :
                        Heat(hv)' = Heat(hv) - CountIn(job[j].targets, hv)
                /\ \A r \in readynet' \ readynet : r[1] # job[j].queue_id
      ]_vars

\* C18: every call that writes to the Target, Readynet, Heatmap or Job table
\* takes the advisory lock for it: a call that changes one of them has called
\* get_lock.
C18_WritesUnderLock ==
    [][<<target, readynet, heatmap, job>>' # <<target, readynet, heatmap, job>>
            => ret'["h1"].locked]_vars

\* C19: every get_lock call, whatever the timeout its caller passes,
\* eventually returns with the lock or raises SchedulerServiceBusyException:
\* no handler waits in get_lock for ever.
C19_GetLockEnds ==
    \A h \in Handlers : (pc[h] = "get_lock") ~> (pc[h] # "get_lock")

\* C20: every heatmap_pop that job_output or reconcile runs finds the
\* Heatmap row of its bucket with count >= 1: before the call, each bucket
\* has a row whose count is at least the number of pops the call makes on it.
C20_PopFindsRow ==
    [][\A j \in DOMAIN job :
        (/\ op'["h1"] \in {"job_output", "reconcile"}
         /\ arg'["h1"] = j
         /\ j \in DOMAIN job'
         /\ job'[j].pops > job[j].pops) =>
            LET popped == SubSeq(job[j].targets, 1, job'[j].pops - job[j].pops)
            IN  \A hv \in Buckets :
                    CountIn(popped, hv) > 0 =>
                        /\ hv \in DOMAIN heatmap
                        /\ heatmap[hv] >= CountIn(popped, hv)
      ]_vars

\* some run of the heatmap_pop loop over targets, started in d, comes to a
\* heatmap_pop that returns hot_level - 1 while a Readynet row of its hashval
\* exists
RECURSIVE CoolingCollides(_, _)
CoolingCollides(d, targets) ==
    IF targets = <<>>
    THEN FALSE
    ELSE LET hv == hashval(Head(targets))
             heat_count == Upsert(d.heatmap, hv, -1)[hv]
         IN  \/ /\ heat_count + 1 = d.hot_level
                /\ \E r \in d.readynet : r[2] = hv
             \/ \E gc \in BOOLEAN :
                    LET res == heatmap_pop(d, hv, gc)
                    IN  res.ok /\ CoolingCollides(res.d, Tail(targets))

\* C21: whenever a heatmap_pop of job_output or reconcile returns
\* hot_level - 1, no Readynet row with its hashval exists beforehand for any
\* queue, so the plain inserts never meet an existing (queue_id, hashval) and
\* the call does not raise out of heatmap_pop.
C21_CoolingNeverCollides ==
    [][\A j \in DOMAIN job :
        (/\ op'["h1"] \in {"job_output", "reconcile"}
         /\ arg'["h1"] = j
         /\ ret'["h1"].locked) =>
            ~CoolingCollides(DB, job[j].targets)
      ]_vars

\* C22: once a job's retval is not null it never changes again, whatever the
\* interleaving of the job_output and reconcile handlers on the job, a
\* reconcile whose retval test ran before another handler finished the job
\* included; and of these calls at most one drains the heatmap for the job.
C22_TerminalAbsorbing ==
    /\ [][\A j \in DOMAIN job :
            (job[j].retval # NoRetval /\ j \in DOMAIN job')
                => job'[j].retval = job[j].retval]_vars
    /\ [](\A j \in DOMAIN job : job[j].pops <= Len(job[j].targets))

====
